---- MODULE Spec2Model ----
(***************************************************************************)
(* TypedMesh<T> (core/src/gl/typedMesh.h): compilation of tessellated      *)
(* geometry into one vertex buffer, one 16-bit index buffer and a list of  *)
(* draw groups, followed by in-place mutation of the vertex buffer with a  *)
(* single merged dirty byte range.                                         *)
(*                                                                         *)
(* Widths are scaled: GLushort is IndexBits wide, size_t / GLintptr /      *)
(* GLsizei are WordBits wide, sizeof(T) is TSize bytes.                    *)
(***************************************************************************)
EXTENDS Integers, Sequences, FiniteSets, TLC

\* ------------------------------------------------------------------ bounds
IndexBits == 2
WordBits == 7
TSize == 2
MaxMeshes == 2
MaxFeatures == 3
MaxOps == 2
MaxVerts == 2

\* ------------------------------------------------- types and their widths
\* GLushort / uint16_t arithmetic wraps at this modulus
IndexModulus == 2 ^ IndexBits

\* one past the largest index a draw group may address
MAX_INDEX_VALUE == 2 ^ IndexBits

\* size_t arithmetic wraps at this modulus
WordModulus == 2 ^ WordBits

\* m_vertexLayout->getStride(): bytes per vertex record
stride == TSize

\* conversion of any integer to size_t
toSizeT(x) == x % WordModulus

\* conversion of a size_t to a signed type of the same width (GLintptr, GLsizei)
toSigned(x) == IF x % WordModulus >= WordModulus \div 2
               THEN (x % WordModulus) - WordModulus
               ELSE x % WordModulus

\* ---------------------------------------------------------------- helpers
Min(a, b) == IF a < b THEN a ELSE b

Max(a, b) == IF a > b THEN a ELSE b

RECURSIVE Flatten(_)
Flatten(ss) == IF ss = <<>> THEN <<>> ELSE Head(ss) \o Flatten(Tail(ss))

RECURSIVE SumSeq(_)
SumSeq(s) == IF s = <<>> THEN 0 ELSE Head(s) + SumSeq(Tail(s))

\* total of m.vertices.size() / m.indices.size() over the meshes
totalVertices(meshes) == SumSeq([k \in 1..Len(meshes) |-> Len(meshes[k].vertices)])

totalIndices(meshes) == SumSeq([k \in 1..Len(meshes) |-> Len(meshes[k].indices)])

\* a pointer: null, or the memory it addresses
nullptr == [null |-> TRUE, mem |-> <<>>]

buffer(mem) == [null |-> FALSE, mem |-> mem]

\* --------------------------------------------------------------- MeshData
\* struct MeshData<T>: offsets (indexCount, vertexCount), vertices, indices
MeshData(offsets, vertices, indices) ==
    [offsets |-> offsets, vertices |-> vertices, indices |-> indices]

\* ------------------------------------------------------- compileIndices
\* line 80: *_dst = _data.indices[src++] + curVertices, stored as GLushort
shiftNone(idx, curVertices) == idx % IndexModulus

shiftIndex(idx, curVertices) == (idx + curVertices) % IndexModulus

\* line 75: the batch does not fit into the open group
neverOpens(curVertices, nVertices) == FALSE

opensWhenFull(curVertices, nVertices) == curVertices + nVertices >= MAX_INDEX_VALUE

opensLate(curVertices, nVertices) == curVertices + nVertices > MAX_INDEX_VALUE + 1

opensNewGroup(curVertices, nVertices) == curVertices + nVertices > MAX_INDEX_VALUE

\* _data.indices[k] (1-based here); a read past the end yields whatever follows
readIndex(indices, k, garbage) == IF k <= Len(indices) THEN indices[k] ELSE garbage

\* offset.first += nIndices; offset.second += nVertices on m_vertexOffsets.back()
addIndicesOnly(offsets, nIndices, nVertices) ==
    [offsets EXCEPT ![Len(offsets)] = <<@[1] + nIndices, @[2]>>]

addToBack(offsets, nIndices, nVertices) ==
    [offsets EXCEPT ![Len(offsets)] = <<@[1] + nIndices, @[2] + nVertices>>]

\* the loop of compileIndices from offset pair k on; st.dst is what has been
\* written through _dst so far, st.vertexOffsets is m_vertexOffsets
RECURSIVE compileIndicesLoop(_, _, _, _, _, _)
compileIndicesLoop(data, k, src, curVertices, st, garbage) ==
    IF k > Len(data.offsets) THEN st
    ELSE LET nIndices == data.offsets[k][1]
             nVertices == data.offsets[k][2]
             split == opensNewGroup(curVertices, nVertices)
             groups == IF split THEN Append(st.vertexOffsets, <<0, 0>>)
                                ELSE st.vertexOffsets
             cur == IF split THEN 0 ELSE curVertices
             written == [i \in 1..nIndices |->
                            shiftIndex(readIndex(data.indices, src + i, garbage), cur)]
         IN compileIndicesLoop(data, k + 1, src + nIndices, cur + nVertices,
                [dst |-> st.dst \o written,
                 vertexOffsets |-> addToBack(groups, nIndices, nVertices),
                 readPastEnd |-> st.readPastEnd \/ src + nIndices > Len(data.indices)],
                garbage)

\* GLushort* compileIndices(GLushort* _dst, const MeshData<T>& _data)
sharesOpenGroup(st, data, garbage) ==
    LET prev == IF st.vertexOffsets = <<>> THEN 0
                ELSE st.vertexOffsets[Len(st.vertexOffsets)][2]
        open == IF st.vertexOffsets = <<>> THEN <<<<0, 0>>>> ELSE st.vertexOffsets
    IN compileIndicesLoop(data, 1, 0, prev, [st EXCEPT !.vertexOffsets = open], garbage)

compileIndices(st, data, garbage) ==
    compileIndicesLoop(data, 1, 0, 0,
        [st EXCEPT !.vertexOffsets = Append(@, <<0, 0>>)], garbage)

RECURSIVE compileAllIndices(_, _, _, _)
compileAllIndices(meshes, k, st, garbage) ==
    IF k > Len(meshes) THEN st
    ELSE compileAllIndices(meshes, k + 1, compileIndices(st, meshes[k], garbage), garbage)

\* line 121: assert(dst == m_glIndexData + m_nIndices), dst being what has
\* been written
endsShortOrAtEnd(dst, nIndices) == Len(dst) <= nIndices

endsAtEnd(dst, nIndices) == Len(dst) = nIndices

\* the bytes memcpy'd from a std::vector<T>: size() * stride bytes
vertexBytes(vertices) == Flatten(vertices)

\* void compile(const std::vector<MeshData<T>>& _meshes): the fields it leaves
compileMeshesResult(meshes, vertexOffsets0, garbage) ==
    LET nVertices == totalVertices(meshes)
        nIndices == totalIndices(meshes)
        bytes == Flatten([k \in 1..Len(meshes) |-> vertexBytes(meshes[k].vertices)])
        st == compileAllIndices(meshes, 1,
                 [dst |-> <<>>, vertexOffsets |-> vertexOffsets0, readPastEnd |-> FALSE],
                 garbage)
    IN [nVertices |-> nVertices,
        nIndices |-> nIndices,
        glVertexData |-> buffer(bytes),
        glIndexData |-> buffer(SubSeq(st.dst, 1, Min(Len(st.dst), nIndices))
                               \o [i \in 1..(nIndices - Len(st.dst)) |-> garbage]),
        vertexOffsets |-> st.vertexOffsets,
        pastEnd |-> st.readPastEnd \/ Len(st.dst) > nIndices,
        assertHolds |-> endsAtEnd(st.dst, nIndices)]

\* ------------------------------------------- compile from parallel arrays
\* line 166: m_glIndexData[iPos++] = idx + vertexOffset, stored as GLushort
shiftArrayNone(idx, vertexOffset) == idx % IndexModulus

shiftArrayIndex(idx, vertexOffset) == (idx + vertexOffset) % IndexModulus

\* line 157: the feature does not fit into the open group
closesLate(vertexOffset, nVertices) == vertexOffset + nVertices > MAX_INDEX_VALUE + 1

closesGroup(vertexOffset, nVertices) == vertexOffset + nVertices > MAX_INDEX_VALUE

\* line 173: m_vertexOffsets.emplace_back(indexOffset, vertexOffset) after the loop
closeLastGroupIfUsed(groups, indexOffset, vertexOffset) ==
    IF vertexOffset = 0 THEN groups ELSE Append(groups, <<indexOffset, vertexOffset>>)

closeLastGroup(groups, indexOffset, vertexOffset) ==
    Append(groups, <<indexOffset, vertexOffset>>)

\* line 143: bool useIndices = m_nIndices > 0
usesIndicesAlways(nIndices) == TRUE

usesIndices(nIndices) == nIndices > 0

\* the loop over vertices[i] from feature i on; st holds the locals
\* vertexOffset, indexOffset and what has been written so far
RECURSIVE compileArraysLoop(_, _, _, _, _)
compileArraysLoop(vertices, indices, i, useIndices, st) ==
    IF i > Len(vertices) THEN st
    ELSE LET nVertices == Len(vertices[i])
             split == useIndices /\ closesGroup(st.vertexOffset, nVertices)
             groups == IF split
                       THEN Append(st.vertexOffsets, <<st.indexOffset, st.vertexOffset>>)
                       ELSE st.vertexOffsets
             vOff == IF split THEN 0 ELSE st.vertexOffset
             iOff == IF split THEN 0 ELSE st.indexOffset
             written == IF useIndices
                        THEN [j \in 1..Len(indices[i]) |->
                                 shiftArrayIndex(indices[i][j], vOff)]
                        ELSE <<>>
         IN compileArraysLoop(vertices, indices, i + 1, useIndices,
                [vData |-> st.vData \o vertexBytes(vertices[i]),
                 iData |-> st.iData \o written,
                 vertexOffsets |-> groups,
                 vertexOffset |-> vOff + nVertices,
                 indexOffset |-> IF useIndices THEN iOff + Len(indices[i]) ELSE iOff])

\* void compile(std::vector<std::vector<T>>&& _vertices,
\*              std::vector<std::vector<uint16_t>>&& _indices): the fields it
\* leaves, given the m_nVertices / m_nIndices it finds
compileArraysResult(vertices, indices, nVertices, nIndices, vertexOffsets0, garbage) ==
    LET useIndices == usesIndices(nIndices)
        st == compileArraysLoop(vertices, indices, 1, useIndices,
                 [vData |-> <<>>, iData |-> <<>>, vertexOffsets |-> vertexOffsets0,
                  vertexOffset |-> 0, indexOffset |-> 0])
        vSize == stride * nVertices
    IN [nVertices |-> nVertices,
        nIndices |-> nIndices,
        glVertexData |-> buffer(SubSeq(st.vData, 1, Min(Len(st.vData), vSize))
                                \o [i \in 1..(vSize - Len(st.vData)) |-> garbage]),
        glIndexData |-> IF useIndices
                        THEN buffer(SubSeq(st.iData, 1, Min(Len(st.iData), nIndices))
                                    \o [i \in 1..(nIndices - Len(st.iData)) |-> garbage])
                        ELSE nullptr,
        vertexOffsets |-> closeLastGroup(st.vertexOffsets, st.indexOffset, st.vertexOffset),
        pastEnd |-> Len(st.vData) > vSize \/ Len(st.iData) > nIndices,
        assertHolds |-> TRUE]

\* the counts the mesh holds when compile(_vertices, _indices) is entered:
\* the totals of the geometry handed over
reservedVertices(vertices) == SumSeq([i \in 1..Len(vertices) |-> Len(vertices[i])])

reservedIndices(indices) == SumSeq([i \in 1..Len(indices) |-> Len(indices[i])])

\* ------------------------------------------------------------- mutation
\* for (size_t offset = start; offset < end; offset += tSize): offset wraps
\* around before reaching end, so the loop does not stop before it has run
\* through the whole address space
loopWraps(start, end) ==
    start < end /\ start + ((end - start + TSize - 1) \div TSize) * TSize >= WordModulus

\* the loop runs through half of the address space or more: no process has
\* that much memory mapped behind one buffer, so a write of the loop faults
loopLeavesMemory(start, end) == start < end /\ end - start >= WordModulus \div 2

\* byte offset q is written by the loop with
\* std::memcpy(m_glVertexData + offset, &value, n) as its body: it lies in the
\* n bytes that follow an offset the loop visits
written(start, end, n, q) ==
    /\ q >= start
    /\ (q - start) % TSize < n
    /\ q - ((q - start) % TSize) < end

\* the loop as a whole: mem is the vertex buffer it leaves, overrun the byte
\* offsets written outside of the buffer, hung whether it cannot complete
writeLoop(start, end, bytes, mem, seen) ==
    [mem |-> [p \in 1..Len(mem) |->
                 IF written(start, end, Len(bytes), p - 1)
                 THEN bytes[((p - 1 - start) % TSize) + 1] ELSE mem[p]],
     overrun |-> seen \cup {q \in Len(mem)..(end - 1 + Len(bytes)) :
                               written(start, end, Len(bytes), q)},
     hung |-> loopWraps(start, end) \/ loopLeavesMemory(start, end)]

\* void setDirty(GLintptr _byteOffset, GLsizei _byteSize): the dirty fields it leaves
setDirtyOverwrites(dirty, dirtyOffset, dirtySize, byteOffset, byteSize) ==
    [dirty |-> TRUE, dirtySize |-> byteSize, dirtyOffset |-> byteOffset]

setDirtyKeepsFirst(dirty, dirtyOffset, dirtySize, byteOffset, byteSize) ==
    IF ~dirty
    THEN [dirty |-> TRUE, dirtySize |-> byteSize, dirtyOffset |-> byteOffset]
    ELSE [dirty |-> TRUE, dirtySize |-> dirtySize, dirtyOffset |-> dirtyOffset]

setDirtyFromZero(dirty, dirtyOffset, dirtySize, byteOffset, byteSize) ==
    IF ~dirty
    THEN [dirty |-> TRUE, dirtySize |-> byteSize, dirtyOffset |-> 0]
    ELSE LET end == toSizeT(Max(dirtyOffset + dirtySize, byteOffset + byteSize))
             newOffset == Min(dirtyOffset, byteOffset)
         IN [dirty |-> TRUE,
             dirtySize |-> toSigned(toSizeT(end - newOffset)),
             dirtyOffset |-> newOffset]

setDirtyResult(dirty, dirtyOffset, dirtySize, byteOffset, byteSize) ==
    IF ~dirty
    THEN [dirty |-> TRUE, dirtySize |-> byteSize, dirtyOffset |-> byteOffset]
    ELSE LET end == toSizeT(Max(dirtyOffset + dirtySize, byteOffset + byteSize))
             newOffset == Min(dirtyOffset, byteOffset)
         IN [dirty |-> TRUE,
             dirtySize |-> toSigned(toSizeT(end - newOffset)),
             dirtyOffset |-> newOffset]

\* line 240: the range check of updateVertices
rejectsNever(range, nVertices) == FALSE

rejectsVertexRange(range, nVertices) == range.start + range.length > nVertices

\* lines 190, 193, 197: the checks of updateAttribute
rejectsAttribute(range, attribOffset, nVertices) ==
    \/ range.start < 0 \/ range.length < 1
    \/ toSizeT(range.start + range.length) > nVertices
    \/ attribOffset >= TSize

\* ------------------------------------------------------------------ state
VARIABLES
    m_isCompiled,     \* bool
    m_nVertices,      \* size_t
    m_nIndices,       \* size_t
    m_glVertexData,   \* GLbyte*: the vertex bytes
    m_glIndexData,    \* GLushort*: the indices
    m_vertexOffsets,  \* vector<pair<uint32_t, uint32_t>>: (indexCount, vertexCount) per draw group
    m_dirty,          \* bool
    m_dirtyOffset,    \* GLintptr
    m_dirtySize,      \* GLsizei
    overrun,          \* byte offsets from m_glVertexData written outside the buffer
    halted,           \* the process was stopped by a failed assert or a bad access
    assertFailed,     \* an assert() saw its condition false
    source,           \* the call that compiled the mesh, with its arguments
    lastOp,           \* the last call after compile and whether it passed its checks
    nOps,             \* number of calls after compile
    marked,           \* <<lo, hi>>: the least offset and the greatest offset + size
                      \* handed to setDirty since the last clear, or <<>> if none
    uploaded          \* the vertex bytes as they were at compile or at the last clear

vars == <<m_isCompiled, m_nVertices, m_nIndices, m_glVertexData, m_glIndexData,
          m_vertexOffsets, m_dirty, m_dirtyOffset, m_dirtySize, overrun, halted,
          assertFailed, source, lastOp, nOps, marked, uploaded>>

meshVars == <<m_isCompiled, m_nVertices, m_nIndices, m_glVertexData, m_glIndexData,
              m_vertexOffsets>>

dirtyVars == <<m_dirty, m_dirtyOffset, m_dirtySize>>

\* ----------------------------------------------------------------- inputs
\* a vertex record of type T: TSize bytes, the first one identifying the vertex
makeVertex(tag) == [b \in 1..TSize |-> IF b = 1 THEN tag ELSE 0]

\* the value written by updateVertices and the byte written by updateAttribute
newVertexValue == [b \in 1..TSize |-> 170]

newAttributeValue(aSize) == [b \in 1..aSize |-> 187]

\* geometry batches: a vertex count and local indices into the batch; one
\* that fits next to another, one that nearly fills a group, one too large
\* for any group, with and without indices
topIndex(nV) == Min(nV, IndexModulus) - 1

UnitBatch == [nV |-> 1, idx |-> <<0, 0>>]

Batches ==
    {UnitBatch}
        \cup UNION {{[nV |-> n, idx |-> <<>>], [nV |-> n, idx |-> <<0, topIndex(n)>>]} :
                       n \in {MAX_INDEX_VALUE - 1, MAX_INDEX_VALUE + 1}}

BatchSeqs(n) == UNION {[1..k -> Batches] : k \in 0..n}

\* number of vertices in the batches before batch i
verticesBefore(bs, i) == SumSeq([k \in 1..(i - 1) |-> bs[k].nV])

\* the per-feature vertex arrays and index arrays of a batch sequence, the
\* vertices numbered from firstTag on
featureVertices(bs, firstTag) ==
    [i \in 1..Len(bs) |->
        [j \in 1..bs[i].nV |-> makeVertex(firstTag + verticesBefore(bs, i) + j - 1)]]

featureIndices(bs) == [i \in 1..Len(bs) |-> bs[i].idx]

\* the same batches as one MeshData with one offset pair per batch
meshDataOf(bs, firstTag) ==
    MeshData([i \in 1..Len(bs) |-> <<Len(bs[i].idx), bs[i].nV>>],
             Flatten(featureVertices(bs, firstTag)),
             Flatten(featureIndices(bs)))

meshesOf(bss) ==
    [k \in 1..Len(bss) |->
        meshDataOf(bss[k], 1 + SumSeq([m \in 1..(k - 1) |->
                                          verticesBefore(bss[m], Len(bss[m]) + 1)]))]

\* the ways to cut a batch sequence into k consecutive meshes: the number
\* of batches in the first j meshes, for j < k
Cuts(n, k) == {c \in [1..(k - 1) -> 0..n] : \A j \in 1..(k - 2) : c[j] <= c[j + 1]}

cutAt(bs, c) ==
    LET k == Len(c) + 1
        from(j) == IF j = 1 THEN 1 ELSE c[j - 1] + 1
        to(j) == IF j = k THEN Len(bs) ELSE c[j]
    IN [j \in 1..k |-> SubSeq(bs, from(j), to(j))]

MeshCuts(bs) == UNION {Cuts(Len(bs), k) : k \in 1..MaxMeshes}

arraysFrom(bs) == [vertices |-> featureVertices(bs, 1), indices |-> featureIndices(bs)]

\* the meshes that are mutated: up to MaxVerts vertices, one batch each
UnitSeqs == UNION {[1..k -> {UnitBatch}] : k \in 0..MaxVerts}

\* what a read past the end of an index array, or a slot of a buffer that is
\* never written, may hold; it only matters when the offset pairs of a mesh
\* do not add up to its index array
Garbage == 0..(IndexModulus - 1)

offsetsMatch(m) == SumSeq([b \in 1..Len(m.offsets) |-> m.offsets[b][1]]) = Len(m.indices)

garbageFor(meshes) ==
    IF \A k \in 1..Len(meshes) : offsetsMatch(meshes[k]) THEN {0} ELSE Garbage

\* a mesh whose first offset pair declares d more indices than the batch has
skewMesh(m, d) ==
    IF m.offsets = <<>> \/ m.offsets[1][1] + d < 0 THEN m
    ELSE [m EXCEPT !.offsets[1] = <<@[1] + d, @[2]>>]

Skews == (0 - 1)..1

\* the batches of such meshes: one that fits next to another and one that
\* nearly fills a group, both with indices
IndexedBatches ==
    {UnitBatch, [nV |-> MAX_INDEX_VALUE - 1, idx |-> <<0, topIndex(MAX_INDEX_VALUE - 1)>>]}

IndexedBatchSeqs == UNION {[1..k -> IndexedBatches] : k \in 0..MaxVerts}

Ranges == [start : (0 - 1)..MaxVerts, length : (0 - 1)..MaxVerts]

\* the byte ranges handed to setDirty directly: at vertex boundaries up to one
\* vertex past MaxVerts, one byte or one vertex long
DirtyOffsets == {v * TSize : v \in 0..(MaxVerts + 1)}

DirtySizes == {1, TSize}

\* sizeof(A) and _attribOffset: the smallest and the largest attribute, at
\* the first byte, at the last byte and past the vertex record
AttributeSizes == {1, TSize}

AttributeOffsets == {0, TSize - 1, TSize}

\* ------------------------------------------------------------------- Init
Init ==
    /\ m_isCompiled = FALSE
    /\ m_nVertices = 0
    /\ m_nIndices = 0
    /\ m_glVertexData = nullptr
    /\ m_glIndexData = nullptr
    /\ m_vertexOffsets = <<>>
    /\ m_dirty = FALSE
    /\ m_dirtyOffset = 0
    /\ m_dirtySize = 0
    /\ overrun = {}
    /\ halted = FALSE
    /\ assertFailed = FALSE
    /\ source = [op |-> "none"]
    /\ lastOp = [op |-> "none", accepted |-> FALSE]
    /\ nOps = 0
    /\ marked = <<>>
    /\ uploaded = <<>>

\* ---------------------------------------------------------------- compile
\* the fields a compile call leaves behind
install(r) ==
    /\ m_isCompiled' = TRUE
    /\ m_nVertices' = r.nVertices
    /\ m_nIndices' = r.nIndices
    /\ m_glVertexData' = r.glVertexData
    /\ m_glIndexData' = r.glIndexData
    /\ m_vertexOffsets' = r.vertexOffsets

\* compile(const std::vector<MeshData<T>>& _meshes); a mesh is compiled once
compileMeshes(meshes) ==
    /\ ~halted
    /\ ~m_isCompiled
    /\ \E garbage \in garbageFor(meshes) :
         LET r == compileMeshesResult(meshes, m_vertexOffsets, garbage)
         IN /\ install(r)
            /\ uploaded' = r.glVertexData.mem
            /\ \E crashed \in (IF r.pastEnd THEN BOOLEAN ELSE {FALSE}) :
                  \* an access past the end of an array may stop the process
                  \* before the assert is reached; a failed assert stops it
                  \* unless asserts are compiled out
                  /\ assertFailed' = (~crashed /\ ~r.assertHolds)
                  /\ halted' \in (IF crashed THEN {TRUE}
                                  ELSE IF r.assertHolds THEN {FALSE} ELSE BOOLEAN)
    /\ source' = [op |-> "compileMeshes", meshes |-> meshes]
    /\ UNCHANGED <<dirtyVars, overrun, lastOp, nOps, marked>>

\* compile(std::vector<std::vector<T>>&& _vertices,
\*         std::vector<std::vector<uint16_t>>&& _indices); the mesh holds the
\* totals of the geometry when the call is made
compileArrays(vertices, indices) ==
    /\ ~halted
    /\ ~m_isCompiled
    /\ LET r == compileArraysResult(vertices, indices, reservedVertices(vertices),
                                    reservedIndices(indices), m_vertexOffsets, 0)
       IN /\ install(r)
          /\ uploaded' = r.glVertexData.mem
          /\ halted' \in (IF r.pastEnd THEN BOOLEAN ELSE {FALSE})
    /\ source' = [op |-> "compileArrays", vertices |-> vertices, indices |-> indices]
    /\ UNCHANGED <<dirtyVars, overrun, assertFailed, lastOp, nOps, marked>>

\* --------------------------------------------------------- updateVertices
\* what has been handed to setDirty since the last clear, in exact integers
mark(byteOffset, byteSize) ==
    IF marked = <<>> THEN <<byteOffset, byteOffset + byteSize>>
    ELSE <<Min(marked[1], byteOffset), Max(marked[2], byteOffset + byteSize)>>

\* the fields a mutation leaves behind: the loop's writes, then setDirty
\* unless a write outside the buffer stopped the process first
mutate(op, start, end, bytes, dirtySize) ==
    LET st == writeLoop(start, end, bytes, m_glVertexData.mem, overrun)
        d == setDirtyResult(m_dirty, m_dirtyOffset, m_dirtySize, toSigned(start), dirtySize)
    IN /\ m_glVertexData' = buffer(st.mem)
       /\ overrun' = st.overrun
       /\ halted' \in (IF st.hung THEN {TRUE}
                       ELSE IF st.overrun # overrun THEN BOOLEAN ELSE {FALSE})
       /\ IF halted'
          THEN UNCHANGED <<dirtyVars, marked>>
          ELSE /\ m_dirty' = d.dirty
               /\ m_dirtyOffset' = d.dirtyOffset
               /\ m_dirtySize' = d.dirtySize
               /\ marked' = mark(toSigned(start), dirtySize)
       /\ lastOp' = [op |-> op, accepted |-> TRUE]
       /\ UNCHANGED <<m_isCompiled, m_nVertices, m_nIndices, m_glIndexData,
                      m_vertexOffsets, assertFailed, source, uploaded>>

\* if (m_glVertexData == nullptr) { assert(false); return; }
onNullBuffer(op) ==
    /\ assertFailed' = TRUE
    /\ halted' \in BOOLEAN
    /\ lastOp' = [op |-> op, accepted |-> FALSE]
    /\ UNCHANGED <<meshVars, dirtyVars, overrun, source, marked, uploaded>>

\* a check failed: return without touching anything
rejectedUncompiles(op) ==
    /\ lastOp' = [op |-> op, accepted |-> FALSE]
    /\ m_isCompiled' = FALSE
    /\ UNCHANGED <<m_nVertices, m_nIndices, m_glVertexData, m_glIndexData, m_vertexOffsets,
                   dirtyVars, overrun, halted, assertFailed, source, marked, uploaded>>

rejected(op) ==
    /\ lastOp' = [op |-> op, accepted |-> FALSE]
    /\ UNCHANGED <<meshVars, dirtyVars, overrun, halted, assertFailed, source,
                   marked, uploaded>>

\* void updateVertices(Range _vertexRange, const T& _newVertexValue)
updateVertices(range, value) ==
    /\ ~halted
    /\ nOps < MaxOps
    /\ nOps' = nOps + 1
    /\ IF m_glVertexData.null THEN onNullBuffer("updateVertices")
       ELSE IF rejectsVertexRange(range, toSigned(m_nVertices))
            THEN rejected("updateVertices")
            ELSE LET start == toSizeT(range.start * TSize)
                     end == toSizeT(start + range.length * TSize)
                 IN mutate("updateVertices", start, end, value,
                           toSigned(toSizeT(end - start)))

\* template<class A> void updateAttribute(Range _vertexRange,
\*     const A& _newAttributeValue, size_t _attribOffset); sizeof(A) is Len(value)
updateAttribute(range, value, attribOffset) ==
    /\ ~halted
    /\ nOps < MaxOps
    /\ nOps' = nOps + 1
    /\ IF m_glVertexData.null THEN onNullBuffer("updateAttribute")
       ELSE IF rejectsAttribute(range, attribOffset, m_nVertices)
            THEN rejected("updateAttribute")
            ELSE LET aSize == Len(value)
                     start == toSizeT(range.start * TSize + attribOffset)
                     end == toSizeT(start + range.length * TSize)
                 IN mutate("updateAttribute", start, end, value,
                           toSigned(toSizeT((range.length - 1) * TSize + aSize)))

\* the upload collaborator has consumed the dirty range and resets it to none
clearDirty ==
    /\ ~halted
    /\ m_dirty
    /\ m_dirty' = FALSE
    /\ m_dirtyOffset' = 0
    /\ m_dirtySize' = 0
    /\ lastOp' = [op |-> "clearDirty", accepted |-> TRUE]
    /\ marked' = <<>>
    /\ uploaded' = m_glVertexData.mem
    /\ UNCHANGED <<meshVars, overrun, halted, assertFailed, source, nOps>>

\* setDirty(GLintptr _byteOffset, GLsizei _byteSize) called on its own, as a
\* subclass may
setDirty(byteOffset, byteSize) ==
    /\ ~halted
    /\ nOps < MaxOps
    /\ nOps' = nOps + 1
    /\ LET d == setDirtyResult(m_dirty, m_dirtyOffset, m_dirtySize, byteOffset, byteSize)
       IN /\ m_dirty' = d.dirty
          /\ m_dirtyOffset' = d.dirtyOffset
          /\ m_dirtySize' = d.dirtySize
    /\ marked' = mark(byteOffset, byteSize)
    /\ lastOp' = [op |-> "setDirty", accepted |-> TRUE]
    /\ UNCHANGED <<meshVars, overrun, halted, assertFailed, source, uploaded>>

\* ---------------------------------------------------------- specifications
CompileSmallMeshes ==
    /\ ~m_isCompiled
    /\ \E bs \in UnitSeqs : compileMeshes(meshesOf(<<bs>>))

CompileSmallArrays ==
    /\ ~m_isCompiled
    /\ \E bs \in UnitSeqs : compileArrays(arraysFrom(bs).vertices, arraysFrom(bs).indices)

UpdateVertices ==
    /\ ~halted /\ nOps < MaxOps
    /\ \E range \in Ranges : updateVertices(range, newVertexValue)

UpdateAttribute ==
    /\ ~halted /\ nOps < MaxOps
    /\ \E range \in Ranges, aSize \in AttributeSizes, attribOffset \in AttributeOffsets :
          updateAttribute(range, newAttributeValue(aSize), attribOffset)

ClearDirty == clearDirty

Next ==
    \/ CompileSmallMeshes
    \/ CompileSmallArrays
    \/ UpdateVertices
    \/ UpdateAttribute
    \/ ClearDirty

Spec == Init /\ [][Next]_vars

SetDirty ==
    /\ ~halted /\ nOps < MaxOps
    /\ \E byteOffset \in DirtyOffsets, byteSize \in DirtySizes : setDirty(byteOffset, byteSize)

NextDirty ==
    \/ CompileSmallMeshes
    \/ CompileSmallArrays
    \/ UpdateVertices
    \/ UpdateAttribute
    \/ SetDirty
    \/ ClearDirty

SpecDirty == Init /\ [][NextDirty]_vars

CompileAnyMeshes ==
    /\ ~m_isCompiled
    /\ \/ compileMeshes(<<>>)
       \/ \E bs \in BatchSeqs(MaxFeatures) : \E c \in MeshCuts(bs) :
             compileMeshes(meshesOf(cutAt(bs, c)))

CompileAnyArrays ==
    /\ ~m_isCompiled
    /\ \E bs \in BatchSeqs(MaxFeatures) :
          compileArrays(arraysFrom(bs).vertices, arraysFrom(bs).indices)

\* meshes whose offset pairs need not add up to their index arrays
CompileSkewedMeshes ==
    /\ ~m_isCompiled
    /\ \E bs \in IndexedBatchSeqs : \E c \in MeshCuts(bs) :
          \E skew \in [1..(Len(c) + 1) -> Skews] :
             compileMeshes([k \in 1..(Len(c) + 1) |->
                               skewMesh(meshesOf(cutAt(bs, c))[k], skew[k])])

NextSkewed == CompileSkewedMeshes

SpecSkewed == Init /\ [][NextSkewed]_vars

NextCompile ==
    \/ CompileAnyMeshes
    \/ CompileAnyArrays

SpecCompile == Init /\ [][NextCompile]_vars

\* ------------------------------------------------- reading a compiled mesh
\* the draw groups
nGroups == Len(m_vertexOffsets)

groupIndexCount(g) == m_vertexOffsets[g][1]

groupVertexCount(g) == m_vertexOffsets[g][2]

\* where group g starts in the index buffer and in the vertex buffer: the
\* sums of the counts of the groups before it
groupIndexStart(g) == SumSeq([k \in 1..(g - 1) |-> m_vertexOffsets[k][1]])

groupVertexStart(g) == SumSeq([k \in 1..(g - 1) |-> m_vertexOffsets[k][2]])

\* the positions (1-based) of the index buffer that belong to group g
groupIndexRange(g) == (groupIndexStart(g) + 1)..(groupIndexStart(g) + groupIndexCount(g))

\* the indices stored so far (none when no index buffer was allocated)
storedIndices == IF m_glIndexData.null THEN <<>> ELSE m_glIndexData.mem

\* vertex record v (0-based) of a vertex buffer
vertexAt(mem, v) == SubSeq(mem, v * TSize + 1, (v + 1) * TSize)

\* the batches of the compile call: their vertex counts, and for every index
\* of the input, in input order, the vertex record it refers to
sourceBatchSizes ==
    IF source.op = "compileMeshes"
    THEN Flatten([k \in 1..Len(source.meshes) |->
                    [b \in 1..Len(source.meshes[k].offsets) |-> source.meshes[k].offsets[b][2]]])
    ELSE IF source.op = "compileArrays"
    THEN [i \in 1..Len(source.vertices) |-> Len(source.vertices[i])]
    ELSE <<>>

meshReferences(m) ==
    Flatten([b \in 1..Len(m.offsets) |->
        LET iBefore == SumSeq([c \in 1..(b - 1) |-> m.offsets[c][1]])
            vBefore == SumSeq([c \in 1..(b - 1) |-> m.offsets[c][2]])
        IN [i \in 1..m.offsets[b][1] |-> m.vertices[vBefore + m.indices[iBefore + i] + 1]]])

sourceReferences ==
    IF source.op = "compileMeshes"
    THEN Flatten([k \in 1..Len(source.meshes) |-> meshReferences(source.meshes[k])])
    ELSE IF source.op = "compileArrays"
    THEN Flatten([i \in 1..Len(source.vertices) |->
                    [j \in 1..Len(source.indices[i]) |->
                        source.vertices[i][source.indices[i][j] + 1]]])
    ELSE <<>>

sourceIndices ==
    IF source.op = "compileMeshes"
    THEN Flatten([k \in 1..Len(source.meshes) |-> source.meshes[k].indices])
    ELSE IF source.op = "compileArrays" THEN Flatten(source.indices)
    ELSE <<>>

batchesFit == \A b \in 1..Len(sourceBatchSizes) : sourceBatchSizes[b] <= MAX_INDEX_VALUE

oneOversizedBatch ==
    /\ Len(sourceBatchSizes) = 1 /\ sourceBatchSizes[1] > MAX_INDEX_VALUE
    /\ source.op = "compileMeshes" => Len(source.meshes) = 1

groupsBounded ==
    \A g \in 1..nGroups :
        /\ groupVertexCount(g) <= MAX_INDEX_VALUE
        /\ \A p \in groupIndexRange(g) : storedIndices[p] < groupVertexCount(g)

\* C1: after compile through either entry point, for any input, every draw
\* group has vertexCount <= MAX_INDEX_VALUE and every index stored in the
\* group's index range is < the group's vertexCount.
C1_AnyInput == m_isCompiled => groupsBounded

\* C1 (amended): the same for inputs whose batches each have at most
\* MAX_INDEX_VALUE vertices and, when compiled from parallel arrays, at least
\* one index in total.
C1_GroupBound ==
    (m_isCompiled /\ batchesFit /\ (source.op = "compileArrays" => m_nIndices > 0))
        => groupsBounded

C1_Witness ==
    /\ m_isCompiled /\ batchesFit /\ source.op = "compileArrays"
    /\ nGroups >= 2 /\ groupIndexCount(2) > 0 /\ groupVertexCount(1) = MAX_INDEX_VALUE

\* C2: every stored index, added to the vertex start of the group whose index
\* range contains it, addresses the vertex that the input index referred to;
\* group g's index range starts at the sum of the index counts before it.
C2_RebasePreservesVertex ==
    m_isCompiled =>
        \A g \in 1..nGroups : \A p \in groupIndexRange(g) :
            vertexAt(m_glVertexData.mem, groupVertexStart(g) + storedIndices[p])
                = sourceReferences[p]

C2_Witness ==
    /\ m_isCompiled /\ nGroups >= 2
    /\ \E p \in groupIndexRange(nGroups) :
          /\ groupVertexStart(nGroups) > 0
          /\ sourceIndices[p] # storedIndices[p]

\* C3: the groups' index counts sum to the mesh's index count and their
\* vertex counts sum to the mesh's vertex count.
C3_Conservation ==
    m_isCompiled =>
        /\ groupIndexStart(nGroups + 1) = m_nIndices
        /\ groupVertexStart(nGroups + 1) = m_nVertices

C3_Witness == m_isCompiled /\ nGroups >= 3 /\ m_nIndices > 2 /\ groupVertexCount(3) > 0

overflowSplit ==
    /\ nGroups >= 2
    /\ groupVertexCount(1) <= MAX_INDEX_VALUE
    /\ groupVertexStart(nGroups + 1) = sourceBatchSizes[1]
    /\ \A g \in 2..nGroups : \A p \in groupIndexRange(g) : storedIndices[p] = sourceIndices[p]

\* C4: a single batch with more than MAX_INDEX_VALUE vertices compiles to at
\* least two groups, the first with at most MAX_INDEX_VALUE vertices, the
\* remainder in the following groups, whose indices are relative to them.
C4_AnySingleBatch == (m_isCompiled /\ oneOversizedBatch) => overflowSplit

\* C4 (amended): the same when the batch has at least one index or is
\* compiled from grouped batches; the first group is then empty and the
\* second holds the whole batch with its indices as given.
C4_OverflowSplit ==
    (m_isCompiled /\ oneOversizedBatch
        /\ (source.op = "compileArrays" => m_nIndices > 0)) =>
        /\ overflowSplit
        /\ m_vertexOffsets = <<<<0, 0>>, <<Len(sourceIndices), sourceBatchSizes[1]>>>>
        /\ storedIndices = sourceIndices

C4_Witness ==
    /\ m_isCompiled /\ oneOversizedBatch /\ source.op = "compileArrays"
    /\ nGroups = 2 /\ groupIndexCount(2) > 0

emptySource ==
    \/ source.op = "compileMeshes" /\ source.meshes = <<>>
    \/ source.op = "compileArrays" /\ source.vertices = <<>> /\ source.indices = <<>>

\* C5: compiling an empty sequence of batches through either entry point
\* gives vertexCount 0, indexCount 0 and exactly one group, (0,0).
C5_OneEmptyGroup ==
    (m_isCompiled /\ emptySource) =>
        m_nVertices = 0 /\ m_nIndices = 0 /\ m_vertexOffsets = <<<<0, 0>>>>

\* C5 (amended): both give vertexCount 0 and indexCount 0; empty parallel
\* arrays give exactly one group, (0,0), an empty list of meshes gives no group.
C5_EmptyInput ==
    (m_isCompiled /\ emptySource) =>
        /\ m_nVertices = 0 /\ m_nIndices = 0
        /\ source.op = "compileArrays" => m_vertexOffsets = <<<<0, 0>>>>
        /\ source.op = "compileMeshes" => m_vertexOffsets = <<>>

C5_Witness == m_isCompiled /\ emptySource /\ source.op = "compileArrays" /\ nGroups = 1

severalMeshesFit ==
    /\ source.op = "compileMeshes"
    /\ Len(source.meshes) >= 2
    /\ totalVertices(source.meshes) <= MAX_INDEX_VALUE

\* C6: consecutive meshes whose batches together fit within MAX_INDEX_VALUE
\* vertices end up in one single group: a mesh boundary closes no group.
C6_GroupPersists == (m_isCompiled /\ severalMeshesFit) => nGroups = 1

\* C6 (amended): every mesh starts a group of its own with running vertex
\* count 0: such meshes end up in one group per mesh, holding that mesh's
\* counts, with indices that count from the first vertex of that mesh.
C6_GroupPerMesh ==
    (m_isCompiled /\ severalMeshesFit) =>
        /\ nGroups = Len(source.meshes)
        /\ \A k \in 1..nGroups :
              /\ m_vertexOffsets[k] = <<Len(source.meshes[k].indices),
                                        Len(source.meshes[k].vertices)>>
              /\ \A p \in groupIndexRange(k) :
                    source.meshes[k].vertices[storedIndices[p] + 1] = sourceReferences[p]

C6_Witness ==
    /\ m_isCompiled /\ severalMeshesFit /\ nGroups = 2
    /\ groupIndexCount(2) > 0 /\ groupVertexCount(1) > 0

\* the features of a batch sequence as one MeshData with one offset pair per
\* feature, and the features of a MeshData as parallel arrays
meshOfArrays(vertices, indices) ==
    MeshData([i \in 1..Len(vertices) |-> <<Len(indices[i]), Len(vertices[i])>>],
             Flatten(vertices), Flatten(indices))

arraysOfMesh(m) ==
    LET iBefore(b) == SumSeq([c \in 1..(b - 1) |-> m.offsets[c][1]])
        vBefore(b) == SumSeq([c \in 1..(b - 1) |-> m.offsets[c][2]])
    IN [vertices |-> [b \in 1..Len(m.offsets) |->
                         SubSeq(m.vertices, vBefore(b) + 1, vBefore(b + 1))],
        indices |-> [b \in 1..Len(m.offsets) |->
                         SubSeq(m.indices, iBefore(b) + 1, iBefore(b + 1))]]

\* the mesh holds exactly what the compile result r describes
holds(r) ==
    /\ m_nVertices = r.nVertices
    /\ m_nIndices = r.nIndices
    /\ m_glVertexData = r.glVertexData
    /\ m_glIndexData = r.glIndexData
    /\ m_vertexOffsets = r.vertexOffsets

\* C7: for features with a non-zero total index count, what one entry point
\* has compiled is what the other entry point yields for the same features
\* (parallel arrays against one MeshData with one offset pair per feature).
C7_EntryPointsAgree ==
    /\ (m_isCompiled /\ source.op = "compileArrays" /\ m_nIndices > 0) =>
          holds(compileMeshesResult(<<meshOfArrays(source.vertices, source.indices)>>,
                                    <<>>, 0))
    /\ (m_isCompiled /\ source.op = "compileMeshes" /\ Len(source.meshes) = 1
            /\ m_nIndices > 0) =>
          LET a == arraysOfMesh(source.meshes[1])
          IN holds(compileArraysResult(a.vertices, a.indices,
                                       reservedVertices(a.vertices),
                                       reservedIndices(a.indices), <<>>, 0))

C7_Witness ==
    /\ m_isCompiled /\ source.op = "compileArrays" /\ m_nIndices > 0
    /\ nGroups >= 2 /\ groupIndexCount(1) > 0 /\ groupIndexCount(2) > 0

\* vertex v lies in the range
inRange(range, v) == range.start <= v /\ v < range.start + range.length

\* C8: on a compiled mesh, updateVertices(range, v1) with
\* range.start + range.length <= vertexCount sets every vertex of the range to
\* v1 and leaves every other vertex as it was.
C8_UpdateVerticesSetsRange ==
    [][\A range \in Ranges :
          (m_isCompiled /\ range.start + range.length <= m_nVertices
              /\ updateVertices(range, newVertexValue)) =>
             \A v \in 0..(m_nVertices - 1) :
                 vertexAt(m_glVertexData'.mem, v) =
                     IF inRange(range, v) THEN newVertexValue
                     ELSE vertexAt(m_glVertexData.mem, v)]_vars

\* C9: an out-of-range request changes nothing: updateVertices with
\* start + length > vertexCount, and updateAttribute with start < 0,
\* length < 1, start + length > vertexCount or attribOffset >= sizeof(T),
\* leave the vertex bytes, the dirty flag and the dirty range as they were: a
\* step of a compiled mesh that changes one of them is not such a request.
C9_RejectedIsNoOp ==
    [][\/ UNCHANGED <<m_glVertexData, m_dirty, m_dirtyOffset, m_dirtySize>>
       \/ ~m_isCompiled
       \/ /\ \A range \in Ranges :
                ~(/\ range.start + range.length > m_nVertices
                  /\ updateVertices(range, newVertexValue))
          /\ \A range \in Ranges, attribOffset \in AttributeOffsets :
                ~(/\ \/ range.start < 0
                     \/ range.length < 1
                     \/ range.start + range.length > m_nVertices
                     \/ attribOffset >= TSize
                  /\ \E aSize \in AttributeSizes :
                        updateAttribute(range, newAttributeValue(aSize), attribOffset))]_vars

C9_Witness ==
    /\ m_isCompiled /\ m_nVertices > 0 /\ m_dirty
    /\ lastOp = [op |-> "updateVertices", accepted |-> FALSE]

\* C10: an accepted updateAttribute<A>(range, value, attribOffset) changes no
\* byte of the vertex buffer other than the bytes
\* [v*sizeof(T)+attribOffset, v*sizeof(T)+attribOffset+sizeof(A)) of the
\* vertices v of the range, and writes no byte beyond the end of the buffer.
C10_FieldIsolation ==
    [][\A range \in Ranges, aSize \in AttributeSizes, attribOffset \in AttributeOffsets :
          (/\ m_isCompiled
           /\ range.start >= 0 /\ range.length >= 1
           /\ range.start + range.length <= m_nVertices
           /\ attribOffset < TSize
           /\ updateAttribute(range, newAttributeValue(aSize), attribOffset)) =>
             /\ \A p \in 1..Len(m_glVertexData.mem) :
                   m_glVertexData'.mem[p] # m_glVertexData.mem[p] =>
                      \E v \in range.start..(range.start + range.length - 1) :
                          /\ v * TSize + attribOffset <= p - 1
                          /\ p - 1 < v * TSize + attribOffset + aSize
             /\ overrun' = overrun]_vars

\* ------------------------------------------------------- the dirty range
\* the tracked dirty range is [lo, hi)
dirtyRangeIs(lo, hi) == m_dirty /\ m_dirtyOffset = lo /\ m_dirtyOffset + m_dirtySize = hi

\* C11: the mesh is dirty exactly when setDirty has been called since the
\* last clear, and its dirty range is then [least offset, greatest
\* offset + size) over those calls, which after one call is that call's
\* range; a clear leaves the mesh with no dirty range.
C11_BoundingInterval ==
    /\ m_dirty <=> marked # <<>>
    /\ m_dirty => dirtyRangeIs(marked[1], marked[2])
    /\ lastOp.op = "clearDirty" => ~m_dirty

C11_Witness ==
    /\ lastOp.op = "setDirty" /\ nOps = 2
    /\ dirtyRangeIs(TSize, (MaxVerts + 1) * TSize + 1)

\* C12: once compiled, a mesh stays compiled, and no call changes its vertex
\* count, its index count, its index data, its group list or the size of its
\* vertex buffer.
C12_LayoutFixed ==
    [][m_isCompiled =>
          /\ m_isCompiled'
          /\ UNCHANGED <<m_nVertices, m_nIndices, m_glIndexData, m_vertexOffsets>>
          /\ m_glVertexData'.null = m_glVertexData.null
          /\ Len(m_glVertexData'.mem) = Len(m_glVertexData.mem)]_vars

C12_Witness ==
    /\ m_isCompiled /\ m_nIndices > 0 /\ nOps = MaxOps
    /\ lastOp.op = "setDirty"
    /\ m_glVertexData.mem # uploaded

\* C13: compiled from parallel arrays with index count 0, the mesh has no
\* index buffer, every group has index count 0 and the groups' vertex counts
\* sum to the number of vertices supplied.
C13_ZeroIndexArrays ==
    (m_isCompiled /\ source.op = "compileArrays" /\ m_nIndices = 0) =>
        /\ m_glIndexData = nullptr
        /\ nGroups >= 1
        /\ \A g \in 1..nGroups : groupIndexCount(g) = 0
        /\ groupVertexStart(nGroups + 1) = Len(Flatten(source.vertices))

C13_Witness ==
    /\ m_isCompiled /\ source.op = "compileArrays" /\ m_nIndices = 0
    /\ Len(source.vertices) >= 2 /\ m_nVertices > MAX_INDEX_VALUE
    /\ m_glIndexData = nullptr

\* the index counts declared by the offset pairs of the meshes
declaredIndices(meshes) ==
    SumSeq([k \in 1..Len(meshes) |->
               SumSeq([b \in 1..Len(meshes[k].offsets) |-> meshes[k].offsets[b][1]])])

allOffsetsMatch(meshes) == \A k \in 1..Len(meshes) : offsetsMatch(meshes[k])

\* C14: compiled from grouped batches, the assertion holds and as many
\* indices are written as the mesh has whenever every mesh's offset pairs add
\* up to its index array; when those of some mesh do not, the assertion fails
\* (unless the process stopped before reaching it).
C14_AssertPerMesh ==
    (m_isCompiled /\ source.op = "compileMeshes") =>
        /\ allOffsetsMatch(source.meshes) =>
              /\ ~assertFailed /\ ~halted
              /\ declaredIndices(source.meshes) = m_nIndices
        /\ (~allOffsetsMatch(source.meshes) /\ ~halted) => assertFailed

\* C14 (amended): the assertion compares totals: it fails exactly when the
\* index counts declared by all offset pairs of all meshes differ from the
\* total index count (unless the process stopped before reaching it), so
\* mismatches of several meshes that cancel out pass.
C14_AssertChecksTotal ==
    (m_isCompiled /\ source.op = "compileMeshes") =>
        /\ allOffsetsMatch(source.meshes) =>
              /\ ~assertFailed /\ ~halted
              /\ declaredIndices(source.meshes) = m_nIndices
        /\ assertFailed => declaredIndices(source.meshes) # m_nIndices
        /\ (declaredIndices(source.meshes) # m_nIndices /\ ~halted) => assertFailed

C14_Witness ==
    /\ m_isCompiled /\ source.op = "compileMeshes" /\ Len(source.meshes) = 2
    /\ ~allOffsetsMatch(source.meshes) /\ assertFailed /\ ~halted

\* C15: on a compiled mesh with no dirty range, an updateVertices call that
\* passes its check and returns leaves the dirty range
\* [start*sizeof(T), (start+length)*sizeof(T)), and such an updateAttribute<A>
\* call leaves [start*sizeof(T)+attribOffset,
\* (start+length-1)*sizeof(T)+attribOffset+sizeof(A)); lastOp' names the call
\* of the step.
C15_ExactSpan ==
    [][(m_isCompiled /\ ~m_dirty /\ ~halted' /\ lastOp'.accepted) =>
          /\ lastOp'.op = "updateVertices" =>
                \A range \in Ranges :
                    (/\ range.start + range.length <= m_nVertices
                     /\ updateVertices(range, newVertexValue)) =>
                        /\ m_dirty'
                        /\ m_dirtyOffset' = range.start * TSize
                        /\ m_dirtyOffset' + m_dirtySize' =
                              (range.start + range.length) * TSize
          /\ lastOp'.op = "updateAttribute" =>
                \A range \in Ranges, attribOffset \in AttributeOffsets :
                    (/\ range.start >= 0 /\ range.length >= 1
                     /\ range.start + range.length <= m_nVertices
                     /\ attribOffset < TSize) =>
                        \A aSize \in AttributeSizes :
                            updateAttribute(range, newAttributeValue(aSize), attribOffset) =>
                                /\ m_dirty'
                                /\ m_dirtyOffset' = range.start * TSize + attribOffset
                                /\ m_dirtyOffset' + m_dirtySize' =
                                      (range.start + range.length - 1) * TSize
                                          + attribOffset + aSize]_vars

C15_Witness ==
    /\ m_isCompiled /\ nOps = 1 /\ ~halted
    /\ lastOp = [op |-> "updateAttribute", accepted |-> TRUE]
    /\ dirtyRangeIs(TSize - 1, TSize + 1)

\* --------------------------------------------------------------- splitting
\* the (indexCount, vertexCount) pairs of the batches of mesh m, of the
\* parallel arrays and of the whole input
meshBatches(m) == m.offsets

arrayBatches(vertices, indices) ==
    [i \in 1..Len(vertices) |-> <<Len(indices[i]), Len(vertices[i])>>]

sourceBatches ==
    IF source.op = "compileMeshes"
    THEN Flatten([k \in 1..Len(source.meshes) |-> meshBatches(source.meshes[k])])
    ELSE IF source.op = "compileArrays" THEN arrayBatches(source.vertices, source.indices)
    ELSE <<>>

\* greedy partition of batches from batch k on, the last of groups being open
RECURSIVE greedyGroups(_, _, _)
greedyGroups(batches, k, groups) ==
    IF k > Len(batches) THEN groups
    ELSE LET open == groups[Len(groups)]
         IN IF open[2] + batches[k][2] > MAX_INDEX_VALUE
            THEN greedyGroups(batches, k + 1, Append(groups, batches[k]))
            ELSE greedyGroups(batches, k + 1,
                    [groups EXCEPT ![Len(groups)] =
                        <<open[1] + batches[k][1], open[2] + batches[k][2]>>])

\* the groups a greedy partition gives: of each mesh in turn, or of the arrays
greedySource ==
    IF source.op = "compileMeshes"
    THEN Flatten([k \in 1..Len(source.meshes) |->
                    greedyGroups(meshBatches(source.meshes[k]), 1, <<<<0, 0>>>>)])
    ELSE greedyGroups(sourceBatches, 1, <<<<0, 0>>>>)

\* within one mesh or the arrays: every group but the last is followed by a
\* batch that did not fit into it
closedGroupsWereFull ==
    (source.op = "compileArrays" \/ Len(source.meshes) = 1) =>
        \A g \in 1..(nGroups - 1) :
            \E b \in 1..Len(sourceBatches) :
                /\ SumSeq([c \in 1..(b - 1) |-> sourceBatches[c][2]]) = groupVertexStart(g + 1)
                /\ groupVertexCount(g) + sourceBatches[b][2] > MAX_INDEX_VALUE

\* C16: the groups of one mesh, and of the parallel arrays, are those of the
\* greedy partition: a new group is opened exactly when the open group's
\* vertex count plus the batch's exceeds MAX_INDEX_VALUE.
C16_GreedyAnyInput ==
    m_isCompiled => (m_vertexOffsets = greedySource /\ closedGroupsWereFull)

\* C16 (amended): the same for grouped batches and for parallel arrays with
\* at least one index; parallel arrays with no index get one single group
\* however many vertices they have.
C16_Greedy ==
    m_isCompiled =>
        IF source.op = "compileArrays" /\ m_nIndices = 0
        THEN m_vertexOffsets = <<<<0, m_nVertices>>>>
        ELSE m_vertexOffsets = greedySource /\ closedGroupsWereFull

C16_Witness ==
    /\ m_isCompiled /\ source.op = "compileArrays" /\ m_nIndices > 0
    /\ Len(sourceBatches) = 3 /\ sourceBatches[1][2] = 1 /\ sourceBatches[2][2] = 1
    /\ m_vertexOffsets[1][2] = 2 /\ nGroups = 2

\* the batch and the group that index position p (1-based) belongs to
batchOfIndex(p) ==
    CHOOSE b \in 1..Len(sourceBatches) :
        /\ SumSeq([c \in 1..(b - 1) |-> sourceBatches[c][1]]) < p
        /\ p <= SumSeq([c \in 1..b |-> sourceBatches[c][1]])

groupOfIndex(p) == CHOOSE g \in 1..nGroups : p \in groupIndexRange(g)

\* original_local_index + currentGroupVertexCount for index position p, in
\* exact integers: the group's running count when the batch is placed is the
\* number of vertices before the batch less those of the groups before
exactRebased(p) ==
    sourceIndices[p]
        + SumSeq([c \in 1..(batchOfIndex(p) - 1) |-> sourceBatches[c][2]])
        - groupVertexStart(groupOfIndex(p))

\* C17: for inputs whose local indices are all less than their batch's vertex
\* count, every stored index is the exact sum of the local index and the
\* group's running vertex count, which is at most the largest GLushort.
C17_RebaseNeverWraps ==
    m_isCompiled =>
        \A p \in 1..Len(storedIndices) :
            /\ exactRebased(p) <= IndexModulus - 1
            /\ storedIndices[p] = exactRebased(p)

C17_Witness ==
    /\ m_isCompiled
    /\ \E p \in 1..Len(storedIndices) :
          /\ storedIndices[p] = IndexModulus - 1
          /\ sourceIndices[p] < storedIndices[p]

\* ------------------------------------------------ dirty range and changes
\* C18: while the process runs, every byte of the vertex buffer that differs
\* from its value at compile or at the last clear lies inside the dirty range
\* of a dirty mesh.
C18_DirtyCoversChanges ==
    (m_isCompiled /\ ~halted) =>
        \A p \in 1..Len(m_glVertexData.mem) :
            m_glVertexData.mem[p] # uploaded[p] =>
                /\ m_dirty
                /\ m_dirtyOffset <= p - 1
                /\ p - 1 < m_dirtyOffset + m_dirtySize

C18_Witness ==
    /\ m_isCompiled /\ ~halted /\ nOps = 2 /\ m_dirty
    /\ \E p, q, r \in 1..Len(m_glVertexData.mem) :
          /\ p < r /\ r < q
          /\ m_glVertexData.mem[p] # uploaded[p]
          /\ m_glVertexData.mem[q] # uploaded[q]
          /\ m_glVertexData.mem[r] = uploaded[r]

\* C19: a dirty mesh has a dirty range of at least one byte that lies inside
\* the vertex buffer.
C19_DirtyRangeInsideBuffer ==
    m_dirty =>
        /\ m_dirtySize >= 1
        /\ m_dirtyOffset >= 0
        /\ m_dirtyOffset + m_dirtySize <= m_nVertices * TSize

====
